---- MODULE Spec2Model ----
(***************************************************************************)
(* A model of llm_sky: the DMS coordinate conversion, the station registry *)
(* parser (src/llm_sky/__main__.py), the compass sector mapping and the    *)
(* proximity query metar_nearby (src/llm_sky/__init__.py).                 *)
(*                                                                         *)
(* Text is modelled as a sequence of one-character strings.  Angles that   *)
(* dms_to_decimal returns are kept exactly, in arc seconds (the value      *)
(* times 3600).  Bearings are kept in units of 0.05 degree, distances in   *)
(* metres, time differences in seconds.                                    *)
(***************************************************************************)
EXTENDS Integers, Sequences, FiniteSets, TLC

VARIABLES
    \* bearing_to_compass
    pcCompass, bearing_arg, compass_ret,
    \* dms_to_decimal
    pcDms, dms, dms_ret,
    \* stations()
    pcParse, lines, lineno, parsed, parse_exc,
    \* metar_nearby
    pcNear, STATIONS, latitude, max_distance, max_seconds_ago,
    distances, idx, result, fetched

compassVars == <<pcCompass, bearing_arg, compass_ret>>
dmsVars == <<pcDms, dms, dms_ret>>
parseVars == <<pcParse, lines, lineno, parsed, parse_exc>>
nearArgs == <<STATIONS, latitude, max_distance, max_seconds_ago>>
nearVars == <<pcNear, nearArgs, distances, idx, result, fetched>>
vars == <<compassVars, dmsVars, parseVars, nearVars>>

(***************************************************************************)
(* Bounds of the model.                                                    *)
(***************************************************************************)
\* bearings range over -MaxTurns .. MaxTurns full circles
MaxTurns == 1
\* longest DMS token given to dms_to_decimal on its own
MaxDmsLen == 6
\* longest registry feed, in lines
MaxLines == 3
\* largest station registry
MaxStations == 3

(***************************************************************************)
(* Python helpers on text and numbers.                                     *)
(***************************************************************************)
Abs(n) == IF n < 0 THEN -n ELSE n

\* int(x) of a quotient n/d with d > 0: truncation toward zero
TruncDiv(n, d) == IF n >= 0 THEN n \div d ELSE -((-n) \div d)

\* round(n/d) for d > 0: to the nearest integer, a tie to the even one
RoundDiv(n, d) ==
    LET q == n \div d
        r == n % d
    IN  IF 2 * r < d THEN q
        ELSE IF 2 * r > d THEN q + 1
        ELSE IF q % 2 = 0 THEN q ELSE q + 1

Digits == {"0", "1", "2", "3", "4", "5", "6", "7", "8", "9"}
Whitespace == {" "}

DigitVal(c) ==
    CASE c = "0" -> 0 [] c = "1" -> 1 [] c = "2" -> 2 [] c = "3" -> 3
      [] c = "4" -> 4 [] c = "5" -> 5 [] c = "6" -> 6 [] c = "7" -> 7
      [] c = "8" -> 8 [] c = "9" -> 9

RECURSIVE DigitsVal(_)
DigitsVal(s) ==
    IF s = <<>> THEN 0
    ELSE 10 * DigitsVal(SubSeq(s, 1, Len(s) - 1)) + DigitVal(s[Len(s)])

\* str.strip()
RECURSIVE LStrip(_)
LStrip(s) == IF s # <<>> /\ Head(s) \in Whitespace THEN LStrip(Tail(s)) ELSE s
RECURSIVE RStrip(_)
RStrip(s) ==
    IF s # <<>> /\ s[Len(s)] \in Whitespace
    THEN RStrip(SubSeq(s, 1, Len(s) - 1)) ELSE s
Strip(s) == RStrip(LStrip(s))

\* str.split(sep) for a one-character separator
RECURSIVE Split(_, _)
Split(s, sep) ==
    IF \A i \in 1..Len(s) : s[i] # sep THEN <<s>>
    ELSE LET i == CHOOSE k \in 1..Len(s) :
                      s[k] = sep /\ \A j \in 1..(k - 1) : s[j] # sep
         IN  <<SubSeq(s, 1, i - 1)>> \o Split(SubSeq(s, i + 1, Len(s)), sep)

\* int(s) of a string: surrounding blanks and one sign are accepted, then
\* digits only; anything else raises ValueError (ok = FALSE)
PyInt(s) ==
    LET t == Strip(s)
        signed == t # <<>> /\ Head(t) \in {"+", "-"}
        body == IF signed THEN Tail(t) ELSE t
    IN  IF body = <<>> \/ \E i \in 1..Len(body) : body[i] \notin Digits
        THEN [ok |-> FALSE, val |-> 0]
        ELSE [ok |-> TRUE,
              val |-> IF signed /\ Head(t) = "-" THEN -DigitsVal(body)
                      ELSE DigitsVal(body)]

(***************************************************************************)
(* dms_to_decimal                                                          *)
(***************************************************************************)
NoExc == "none"
Raised(e) == [exc |-> e, val |-> 0]
Returned(v) == [exc |-> NoExc, val |-> v]

\* direction in 'SW'
NegatesDirection(direction) == direction \in {"S", "W"}

\* The value in arc seconds, or the exception the call ends with.
dms_to_decimal(tok) ==
    IF tok = <<>> THEN Raised("IndexError")
    ELSE
    LET direction == tok[Len(tok)]
        segs == Split(SubSeq(tok, 1, Len(tok) - 1), "-")
        ints == [i \in 1..Len(segs) |-> PyInt(segs[i])]
    IN  IF \E i \in 1..Len(ints) : ~ints[i].ok THEN Raised("ValueError")
        ELSE IF Len(ints) > 3 THEN Raised("ValueError")
        ELSE
        LET numbers == [i \in 1..3 |-> IF i <= Len(ints) THEN ints[i].val ELSE 0]
            decimal == numbers[1] * 3600 + numbers[2] * 60 + numbers[3]
        IN  Returned(IF NegatesDirection(direction) THEN -decimal ELSE decimal)

\* round(x, 5) of an angle given in arc seconds, in units of 0.00001 degree
Round5(arcsec) == RoundDiv(arcsec * 250, 9)

(***************************************************************************)
(* bearing_to_compass                                                      *)
(***************************************************************************)
compass_sectors ==
    <<"N", "NNE", "NE", "ENE", "E", "ESE", "SE", "SSE",
      "S", "SSW", "SW", "WSW", "W", "WNW", "NW", "NNW">>

\* sector_size = 360 / len(compass_sectors) = 22.5 degrees, in units of
\* 0.05 degree
sector_size == 450
\* the full circle, 360 degrees
Circle == sector_size * Len(compass_sectors)

SectorIndex(bearing) ==
    TruncDiv(bearing + sector_size \div 2, sector_size) % Len(compass_sectors)

bearing_to_compass(bearing) == compass_sectors[SectorIndex(bearing) + 1]

(***************************************************************************)
(* Python dict: the entries [key, val] in insertion order.  Assigning to   *)
(* a key that is present replaces its value in place; a new key is         *)
(* appended.                                                               *)
(***************************************************************************)
DictKeys(d) == [i \in 1..Len(d) |-> d[i].key]
HasKey(d, k) == \E i \in 1..Len(d) : d[i].key = k
DictGet(d, k) == d[CHOOSE i \in 1..Len(d) : d[i].key = k].val

\* variant: an assignment to a present key is ignored
DictPutKeepsFirst(d, k, v) ==
    IF HasKey(d, k) THEN d ELSE Append(d, [key |-> k, val |-> v])

DictPut(d, k, v) ==
    IF HasKey(d, k)
    THEN [i \in 1..Len(d) |-> IF d[i].key = k THEN [key |-> k, val |-> v] ELSE d[i]]
    ELSE Append(d, [key |-> k, val |-> v])

(***************************************************************************)
(* stations(): the registry parser.  A line of the feed is the record of   *)
(* its named fields (csv.DictReader with FIELDNAMES; the unnamed fields    *)
(* are dropped by the "if k" of the comprehension; a field missing from a  *)
(* short line is None, which the tests of the loop treat as an empty one). *)
(***************************************************************************)
None == [some |-> FALSE, str |-> <<>>, int |-> 0]
SomeStr(s) == [some |-> TRUE, str |-> s, int |-> 0]
SomeInt(n) == [some |-> TRUE, str |-> <<>>, int |-> n]

\* "d['latitude'] and d['longitude']": both fields are non-empty strings
HasCoordinateFields(d) == d.latitude # <<>> /\ d.longitude # <<>>

\* What the loop body does with one record: skips it, raises, or stores a
\* station under d['code'].  The comprehension is evaluated in the order of
\* d.items() (name, country, altitude, coordinate) before station(...) is
\* called, so a failing int(altitude) comes before the missing name.
ParseRecord(d) ==
    IF ~HasCoordinateFields(d) THEN [kind |-> "skip", exc |-> NoExc]
    ELSE
    LET lat == dms_to_decimal(d.latitude)
        lon == dms_to_decimal(d.longitude)
    IN  IF lat.exc # NoExc THEN [kind |-> "raise", exc |-> lat.exc]
        ELSE IF lon.exc # NoExc THEN [kind |-> "raise", exc |-> lon.exc]
        ELSE IF d.altitude # <<>> /\ ~PyInt(Strip(d.altitude)).ok
        THEN [kind |-> "raise", exc |-> "ValueError"]
        ELSE IF d.name = <<>> THEN [kind |-> "raise", exc |-> "TypeError"]
        ELSE [kind |-> "store", exc |-> NoExc,
              station |->
                [name |-> SomeStr(Strip(d.name)),
                 coordinate |-> <<Round5(lat.val), Round5(lon.val)>>,
                 altitude |-> IF d.altitude # <<>>
                              THEN SomeInt(PyInt(Strip(d.altitude)).val)
                              ELSE None,
                 country |-> IF d.country # <<>>
                             THEN SomeStr(Strip(d.country)) ELSE None]]

\* The feeds: lines that differ from a well-formed line in one field.
LatGood == <<"4", "0", "-", "3", "8", "N">>
LonGood == <<"0", "7", "3", "-", "4", "7", "W">>
BaseLine ==
    [code |-> "KA", name |-> <<"J", "F", "K">>, country |-> <<"U", "S">>,
     latitude |-> LatGood, longitude |-> LonGood, altitude |-> <<"4">>]

LineCatalog ==
    {BaseLine,
     [BaseLine EXCEPT !.code = "KB", !.name = <<"L", "G", "A">>],
     [BaseLine EXCEPT !.code = "KB", !.latitude = <<>>]}
    \cup {[BaseLine EXCEPT !.name = v] : v \in {<<>>, <<" ">>}}
    \cup {[BaseLine EXCEPT !.country = v] : v \in {<<>>, <<" ">>}}
    \cup {[BaseLine EXCEPT !.latitude = v] :
            v \in {<<>>, <<"4", "x", "-", "3", "8", "N">>, <<"9", "5", "-", "0", "0", "N">>}}
    \cup {[BaseLine EXCEPT !.longitude = v] :
            v \in {<<>>, <<"0", "7", "3", "-", "x", "W">>}}
    \cup {[BaseLine EXCEPT !.altitude = v] :
            v \in {<<>>, <<" ">>, <<"1", "x">>, <<" ", "1", "2">>}}

Feeds == UNION {[1..n -> LineCatalog] : n \in 0..MaxLines}

(***************************************************************************)
(* Geodesy.  Latitudes and longitudes are in units of 0.001 degree.  The   *)
(* stations of the model lie on the meridian of the query point, where     *)
(* the haversine formula gives R * |dlat| (in radians) and the initial     *)
(* bearing is 0 (north, or the same point) or 180 degrees (south).         *)
(***************************************************************************)
\* R * pi / 180 / 1000 = 111.195 m for 0.001 degree of latitude, R = 6371 km
haversine(lat1, lon1, lat2, lon2) ==
    CASE lon1 = lon2 -> (Abs(lat2 - lat1) * 111195) \div 1000

\* atan2(0, y): 0 for y >= 0, pi for y < 0, then (degrees + 360) % 360
bearing(lat1, lon1, lat2, lon2) ==
    CASE lon1 = lon2 -> IF lat2 < lat1 THEN Circle \div 2 ELSE 0

(***************************************************************************)
(* metar_nearby                                                            *)
(***************************************************************************)
\* the query's longitude, which is also that of every station
longitude == 0

\* "if distance <= max_distance"
\* variant: no distance filter
WithinAnyDistance(distance, max) == TRUE
WithinDistance(distance, max) == distance <= max

\* "if delta.total_seconds() >= -max_seconds_ago"
\* variant: the comparison on the absolute age
FreshByAbsoluteAge(delta, max_age) == Abs(delta) <= max_age
Fresh(delta, max_age) == delta >= -max_age

StationDistance(station) ==
    haversine(latitude, longitude, station.coordinate[1], station.coordinate[2])

\* the loop of lines 192-195 over STATIONS.items(), in insertion order
RECURSIVE Collect(_)
Collect(items) ==
    IF items = <<>> THEN <<>>
    ELSE LET rest == Collect(SubSeq(items, 1, Len(items) - 1))
             item == items[Len(items)]
             distance == StationDistance(item.val)
         IN  IF WithinDistance(distance, max_distance)
             THEN Append(rest, [code |-> item.key, station |-> item.val,
                                distance |-> distance])
             ELSE rest

\* list.sort(key=lambda x: x[2]): stable, ascending
InsertByDistance(s, x) ==
    LET n == Cardinality({i \in 1..Len(s) : s[i].distance <= x.distance})
    IN  SubSeq(s, 1, n) \o <<x>> \o SubSeq(s, n + 1, Len(s))

\* variant: the list is left in registry order
SortUnsorted(s) == s

RECURSIVE SortByDistance(_)
SortByDistance(s) ==
    IF s = <<>> THEN <<>>
    ELSE InsertByDistance(SortByDistance(SubSeq(s, 1, Len(s) - 1)), s[Len(s)])

\* f'{station.name}: {round(distance)}km {compass} {round(minutes)}m ago':
\* the four values the string is formatted from
Label(station, distance, delta) ==
    [name |-> station.name,
     km |-> RoundDiv(distance, 1000),
     compass |-> bearing_to_compass(
         bearing(latitude, longitude, station.coordinate[1], station.coordinate[2])),
     minutes |-> RoundDiv(Abs(delta), 60)]

\* The registry (llm_sky.metar_data.STATIONS): a dict from station code to
\* station, here any ordered choice of distinct stations of a pool.
StationPool ==
    [code \in {"K1", "K2", "K3", "K4", "K5"} |->
        CASE code = "K1" -> [name |-> "A", coordinate |-> <<90, longitude>>]
          [] code = "K2" -> [name |-> "B", coordinate |-> <<91, longitude>>]
          [] code = "K3" -> [name |-> "A", coordinate |-> <<92, longitude>>]
          [] code = "K4" -> [name |-> "B", coordinate |-> <<-91, longitude>>]
          [] code = "K5" -> [name |-> "A", coordinate |-> <<1350, longitude>>]]

Registries ==
    {[i \in 1..Len(cs) |-> [key |-> cs[i], val |-> StationPool[cs[i]]]] :
        cs \in {c \in UNION {[1..n -> DOMAIN StationPool] : n \in 0..MaxStations} :
                    \A i, j \in 1..Len(c) : i # j => c[i] # c[j]}}

QueryLatitudes == {0, 91}
MaxDistances == {0, 100000}
MaxSecondsAgos == {60, 7200}
\* report time minus now, in seconds
Deltas == {-7201, -7200, -60, 7300}

(***************************************************************************)
(* The states in which a part of the program is not running.               *)
(***************************************************************************)
NoResult == Returned(0)
EmptyDict == <<>>

CompassIdle == pcCompass = "idle" /\ bearing_arg = 0 /\ compass_ret = ""
DmsIdle == pcDms = "idle" /\ dms = <<>> /\ dms_ret = NoResult
ParseIdle ==
    /\ pcParse = "idle" /\ lines = <<>> /\ lineno = 1
    /\ parsed = EmptyDict /\ parse_exc = NoExc
NearIdle ==
    /\ pcNear = "idle" /\ STATIONS = <<>> /\ latitude = 0
    /\ max_distance = 0 /\ max_seconds_ago = 0
    /\ distances = <<>> /\ idx = 1 /\ result = EmptyDict /\ fetched = <<>>

(***************************************************************************)
(* SpecCompass: bearing_to_compass called on a bearing.                    *)
(***************************************************************************)
Bearings == (-MaxTurns * Circle) .. ((MaxTurns + 1) * Circle)

InitCompass ==
    /\ pcCompass = "call" /\ bearing_arg \in Bearings /\ compass_ret = ""
    /\ DmsIdle /\ ParseIdle /\ NearIdle

CallCompass ==
    /\ pcCompass = "call"
    /\ compass_ret' = bearing_to_compass(bearing_arg)
    /\ pcCompass' = "done"
    /\ UNCHANGED <<bearing_arg, dmsVars, parseVars, nearVars>>

NextCompass == CallCompass
SpecCompass == InitCompass /\ [][NextCompass]_vars

(***************************************************************************)
(* SpecDms: dms_to_decimal called on a token.                              *)
(***************************************************************************)
DmsAlphabet == {"7", "-", "N", "W", "x"}
Tokens == UNION {[1..n -> DmsAlphabet] : n \in 0..MaxDmsLen}

InitDms ==
    /\ pcDms = "call" /\ dms \in Tokens /\ dms_ret = NoResult
    /\ CompassIdle /\ ParseIdle /\ NearIdle

CallDms ==
    /\ pcDms = "call"
    /\ dms_ret' = dms_to_decimal(dms)
    /\ pcDms' = "done"
    /\ UNCHANGED <<dms, compassVars, parseVars, nearVars>>

NextDms == CallDms
SpecDms == InitDms /\ [][NextDms]_vars

(***************************************************************************)
(* Compass and DMS conversion claims.                                      *)
(***************************************************************************)
FloorIndex(b) == ((b + sector_size \div 2) \div sector_size) % 16

\* C10: for every bearing b, with no restriction of its range,
\* bearing_to_compass(b) is the label at index floor((b + 11.25) / 22.5)
\* mod 16 of the 16-point list N, NNE, ..., NNW.
C10_FloorFormula ==
    pcCompass = "done" => compass_ret = compass_sectors[FloorIndex(bearing_arg) + 1]

Hemispheres == {"N", "S", "E", "W"}

IsInteger(seg) == seg # <<>> /\ \A i \in 1..Len(seg) : seg[i] \in Digits

WellFormedDms(tok) ==
    /\ tok # <<>>
    /\ tok[Len(tok)] \in Hemispheres
    /\ LET segs == Split(SubSeq(tok, 1, Len(tok) - 1), "-")
       IN  Len(segs) <= 3 /\ \A i \in 1..Len(segs) : IsInteger(segs[i])

\* C5: dms_to_decimal returns a number only for tokens of the form
\* <degrees>[-<minutes>[-<seconds>]]<N|S|E|W>: an empty token, a segment
\* that is not an integer, and a last character that is no hemisphere
\* letter all make it fail.
C5_OnlyWellFormedConverts ==
    (pcDms = "done" /\ dms_ret.exc = NoExc) => WellFormedDms(dms)

(***************************************************************************)
(* SpecStations: stations() run over a feed, one record per step.          *)
(***************************************************************************)
InitStations ==
    /\ pcParse = "loop" /\ lines \in Feeds /\ lineno = 1
    /\ parsed = EmptyDict /\ parse_exc = NoExc
    /\ CompassIdle /\ DmsIdle /\ NearIdle

\* one iteration of "for d in csv.DictReader(...)"
ParseLine ==
    /\ pcParse = "loop" /\ lineno <= Len(lines)
    /\ LET d == lines[lineno]
           r == ParseRecord(d)
       IN  CASE r.kind = "skip" ->
                  /\ lineno' = lineno + 1
                  /\ UNCHANGED <<pcParse, parsed, parse_exc>>
             [] r.kind = "raise" ->
                  /\ pcParse' = "raised" /\ parse_exc' = r.exc
                  /\ UNCHANGED <<lineno, parsed>>
             [] r.kind = "store" ->
                  /\ parsed' = DictPut(parsed, d.code, r.station)
                  /\ lineno' = lineno + 1
                  /\ UNCHANGED <<pcParse, parse_exc>>
    /\ UNCHANGED <<lines, compassVars, dmsVars, nearVars>>

\* "return result"
ParseReturn ==
    /\ pcParse = "loop" /\ lineno > Len(lines)
    /\ pcParse' = "returned"
    /\ UNCHANGED <<lines, lineno, parsed, parse_exc, compassVars, dmsVars, nearVars>>

NextStations == ParseLine \/ ParseReturn
SpecStations == InitStations /\ [][NextStations]_vars

(***************************************************************************)
(* SpecNearby: one call of metar_nearby; each report fetch is a step.      *)
(***************************************************************************)
InitNearby ==
    /\ pcNear = "start"
    /\ STATIONS \in Registries
    /\ latitude \in QueryLatitudes
    /\ max_distance \in MaxDistances
    /\ max_seconds_ago \in MaxSecondsAgos
    /\ distances = <<>> /\ idx = 1 /\ result = EmptyDict /\ fetched = <<>>
    /\ CompassIdle /\ DmsIdle /\ ParseIdle

\* lines 190-200: collect the stations in range, sort them, result = {}
CollectAndSort ==
    /\ pcNear = "start"
    /\ distances' = SortByDistance(Collect(STATIONS))
    /\ idx' = 1 /\ result' = EmptyDict
    /\ pcNear' = "loop"
    /\ UNCHANGED <<nearArgs, fetched, compassVars, dmsVars, parseVars>>

\* variant: the exception of one iteration leaves the function
FetchRaisesAborts ==
    /\ pcNear = "loop" /\ idx <= Len(distances)
    /\ fetched' = Append(fetched, [code |-> distances[idx].code, ok |-> FALSE, delta |-> 0])
    /\ pcNear' = "raised"
    /\ UNCHANGED <<nearArgs, distances, idx, result, compassVars, dmsVars, parseVars>>

\* one iteration in which metar(code) raises: "except: pass"
FetchRaises ==
    /\ pcNear = "loop" /\ idx <= Len(distances)
    /\ fetched' = Append(fetched, [code |-> distances[idx].code, ok |-> FALSE, delta |-> 0])
    /\ idx' = idx + 1
    /\ UNCHANGED <<pcNear, nearArgs, distances, result, compassVars, dmsVars, parseVars>>

\* one iteration in which metar(code) returns (time, report), the report
\* being the one of station code; delta = time - now
FetchReturns ==
    /\ pcNear = "loop" /\ idx <= Len(distances)
    /\ \E delta \in Deltas :
         LET c == distances[idx]
         IN  /\ fetched' = Append(fetched, [code |-> c.code, ok |-> TRUE, delta |-> delta])
             /\ result' = IF Fresh(delta, max_seconds_ago)
                          THEN DictPut(result, Label(c.station, c.distance, delta), c.code)
                          ELSE result
    /\ idx' = idx + 1
    /\ UNCHANGED <<pcNear, nearArgs, distances, compassVars, dmsVars, parseVars>>

\* "return result"
NearbyReturn ==
    /\ pcNear = "loop" /\ idx > Len(distances)
    /\ pcNear' = "done"
    /\ UNCHANGED <<nearArgs, distances, idx, result, fetched, compassVars, dmsVars, parseVars>>

NextNearby == CollectAndSort \/ FetchRaises \/ FetchReturns \/ NearbyReturn
SpecNearby == InitNearby /\ [][NextNearby]_vars

(***************************************************************************)
(* Registry parser claims.                                                 *)
(***************************************************************************)
Convertible(d) ==
    /\ HasCoordinateFields(d)
    /\ dms_to_decimal(d.latitude).exc = NoExc
    /\ dms_to_decimal(d.longitude).exc = NoExc

BadCoordinate(d) == HasCoordinateFields(d) /\ ~Convertible(d)

Blank(field) == Strip(field) = <<>>

\* C4: a record whose latitude and longitude are both non-empty but not both
\* convertible is skipped: the parse does not abort on it, and every record
\* with convertible coordinates is in the returned mapping.
C4_BadCoordinateSkipsOnlyThatRecord ==
    /\ pcParse = "raised" => ~BadCoordinate(lines[lineno])
    /\ pcParse = "returned" =>
         \A i \in 1..Len(lines) :
            Convertible(lines[i]) => HasKey(parsed, lines[i].code)

\* C6: every station of the returned mapping has a coordinate built from a
\* record with both fields non-empty and converted, with latitude in
\* [-90, 90] and longitude in [-180, 180] (here in units of 0.00001 degree).
C6_EveryStationHasValidCoordinate ==
    pcParse = "returned" =>
        \A e \in 1..Len(parsed) :
            /\ \E i \in 1..Len(lines) :
                  lines[i].code = parsed[e].key /\ Convertible(lines[i])
            /\ parsed[e].val.coordinate[1] \in (-90 * 100000)..(90 * 100000)
            /\ parsed[e].val.coordinate[2] \in (-180 * 100000)..(180 * 100000)

\* an optional string field of the claim: absent when blank
C7_Field(stored, field) ==
    IF Blank(field) THEN ~stored.some ELSE stored = SomeStr(Strip(field))

C7_Step ==
    (pcParse = "loop" /\ lineno <= Len(lines) /\ Convertible(lines[lineno])
        /\ <<pcParse, lineno>>' # <<pcParse, lineno>>)
    => LET d == lines[lineno]
       IN  /\ pcParse' = "raised" => (~Blank(d.altitude) /\ ~PyInt(d.altitude).ok)
           /\ pcParse' # "raised" =>
                /\ HasKey(parsed', d.code)
                /\ LET st == DictGet(parsed', d.code)
                   IN  /\ C7_Field(st.name, d.name)
                       /\ C7_Field(st.country, d.country)
                       /\ IF Blank(d.altitude) THEN ~st.altitude.some
                          ELSE st.altitude = SomeInt(PyInt(d.altitude).val)

\* C7: for a record with convertible coordinates, an empty or blank name,
\* country or altitude is absent from the station that is stored (never an
\* empty string), an integer altitude is stored as that integer, and an
\* empty or blank optional field does not make the record fail.
C7_BlankOptionalFieldsAreAbsent == [][C7_Step]_vars

\* the codes of a sequence in the order of their first occurrence
RECURSIVE FirstOccurrences(_)
FirstOccurrences(codes) ==
    IF codes = <<>> THEN <<>>
    ELSE LET r == FirstOccurrences(SubSeq(codes, 1, Len(codes) - 1))
             x == codes[Len(codes)]
         IN  IF \E i \in 1..Len(r) : r[i] = x THEN r ELSE Append(r, x)

CodesOf(ls) == [i \in 1..Len(ls) |-> ls[i].code]
FirstIndex(ls, code) == CHOOSE i \in 1..Len(ls) :
    ls[i].code = code /\ \A j \in 1..(i - 1) : ls[j].code # code
LastLine(ls, code) == ls[CHOOSE i \in 1..Len(ls) :
    ls[i].code = code /\ \A j \in (i + 1)..Len(ls) : ls[j].code # code]
IsStored(d) == ParseRecord(d).kind = "store"
KeysOnce(d) == \A i, j \in 1..Len(d) : i # j => d[i].key # d[j].key

\* C8 as stated: each code is in the returned mapping at most once, at the
\* position of its first occurrence in the feed, with the station of the
\* last line of the feed that carries it.
C8_LastLineWins ==
    pcParse = "returned" =>
        /\ KeysOnce(parsed)
        /\ \A e \in 1..Len(parsed) :
              /\ \E i \in 1..Len(lines) : lines[i].code = parsed[e].key
              /\ IsStored(LastLine(lines, parsed[e].key))
              /\ parsed[e].val = ParseRecord(LastLine(lines, parsed[e].key)).station
        /\ \A e, f \in 1..Len(parsed) :
              e < f => FirstIndex(lines, parsed[e].key) < FirstIndex(lines, parsed[f].key)

\* C8 as amended: each code is in the returned mapping at most once, at the
\* position of its first occurrence among the lines that are not skipped
\* for an empty latitude or longitude field, with the station of the last
\* such line that carries it.
C8_LastStoredLineWins ==
    pcParse = "returned" =>
        LET kept == SelectSeq(lines, IsStored)
        IN  /\ KeysOnce(parsed)
            /\ DictKeys(parsed) = FirstOccurrences(CodesOf(kept))
            /\ \A e \in 1..Len(parsed) :
                  parsed[e].val = ParseRecord(LastLine(kept, parsed[e].key)).station

\* a code stored twice with different stations, another code in between
C8_Witness ==
    /\ pcParse = "returned" /\ Len(lines) = 3 /\ Len(parsed) = 2
    /\ lines[1].code = lines[3].code /\ lines[2].code # lines[1].code
    /\ \A i \in 1..3 : IsStored(lines[i])
    /\ ParseRecord(lines[1]).station # ParseRecord(lines[3]).station
    /\ parsed[1].key = lines[1].code
    /\ parsed[1].val = ParseRecord(lines[3]).station

(***************************************************************************)
(* Proximity query claims.                                                 *)
(***************************************************************************)
RegPos(code) == CHOOSE i \in 1..Len(STATIONS) : STATIONS[i].key = code
RegStation(code) == STATIONS[RegPos(code)].val
RegDist(code) == StationDistance(RegStation(code))
InRangeCodes == {STATIONS[i].key : i \in {k \in 1..Len(STATIONS) :
                    RegDist(STATIONS[k].key) <= max_distance}}
\* nearest first, equal distances in registry insertion order
Nearer(a, b) ==
    \/ RegDist(a) < RegDist(b)
    \/ RegDist(a) = RegDist(b) /\ RegPos(a) < RegPos(b)

\* what the fetch log says of its i-th call
FetchedLabel(i) ==
    Label(RegStation(fetched[i].code), RegDist(fetched[i].code), fetched[i].delta)
Failed(i) == ~fetched[i].ok
Included(i) == fetched[i].ok /\ fetched[i].delta >= -max_seconds_ago
Stale(i) == fetched[i].ok /\ fetched[i].delta < -max_seconds_ago
IncludedWith(l) == {i \in 1..Len(fetched) : Included(i) /\ FetchedLabel(i) = l}
SetMin(S) == CHOOSE x \in S : \A y \in S : x <= y
SetMax(S) == CHOOSE x \in S : \A y \in S : x >= y

\* no report of a station beyond max_distance
C1_OnlyInRange ==
    /\ \A e \in 1..Len(result) : result[e].val \in InRangeCodes
    /\ (max_distance = 0 /\ \A i \in 1..Len(STATIONS) : RegDist(STATIONS[i].key) # 0)
          => result = EmptyDict

\* C1 as stated: the result holds only reports of stations within
\* max_distance, in ascending order of the stations' distance (equal
\* distances in registry order), whatever the order of the registry.
C1_ReportsAscendingByStationDistance ==
    pcNear = "done" =>
        /\ C1_OnlyInRange
        /\ \A e, f \in 1..Len(result) : e < f => Nearer(result[e].val, result[f].val)

\* C1 as amended: the result holds only reports of stations within
\* max_distance; its entries are in ascending order of the distance of the
\* nearest included station that produced the entry's label, and an entry
\* holds the report of the last included station that produced its label.
\* Hence the reports are in ascending order of station distance whenever no
\* two included stations produce the same label, and the rounded distances
\* of the labels are ascending in every case.
C1_EntriesAscendingByNearestLabelled ==
    pcNear = "done" =>
        /\ C1_OnlyInRange
        /\ \A e \in 1..Len(result) :
              /\ IncludedWith(result[e].key) # {}
              /\ result[e].val = fetched[SetMax(IncludedWith(result[e].key))].code
        /\ \A e, f \in 1..Len(result) : e < f =>
              /\ Nearer(fetched[SetMin(IncludedWith(result[e].key))].code,
                        fetched[SetMin(IncludedWith(result[f].key))].code)
              /\ result[e].key.km <= result[f].key.km
        /\ (\A i, j \in 1..Len(fetched) :
               (Included(i) /\ Included(j) /\ i # j) => FetchedLabel(i) # FetchedLabel(j))
           => \A e, f \in 1..Len(result) : e < f => Nearer(result[e].val, result[f].val)

\* a registry that is not in distance order and has a station out of range
C1_Witness ==
    /\ pcNear = "done" /\ Len(result) = 2 /\ Len(STATIONS) = 3
    /\ RegDist(STATIONS[1].key) > max_distance
    /\ result[1].val = STATIONS[3].key /\ result[2].val = STATIONS[2].key
    /\ RegDist(STATIONS[3].key) < RegDist(STATIONS[2].key)

\* C2: a fetch that fails never aborts the query: no error reaches the
\* caller, every candidate is still processed, the failing candidate has no
\* report in the result, and every candidate with a fresh, successfully
\* fetched report has its entry in the result.
C2_FetchFailureSkipsOnlyThatCandidate ==
    /\ pcNear # "raised"
    /\ pcNear = "done" =>
         /\ Len(fetched) = Cardinality(InRangeCodes)
         /\ \A i \in 1..Len(fetched) :
               /\ Failed(i) => \A e \in 1..Len(result) : result[e].val # fetched[i].code
               /\ Included(i) => HasKey(result, FetchedLabel(i))

\* failures first, in the middle and last, around candidates that succeed
C2_Witness ==
    /\ pcNear = "done" /\ Len(fetched) = 3 /\ Len(result) = 1
    /\ \E p \in {<<1, 2, 3>>, <<2, 1, 3>>, <<3, 1, 2>>} :
          /\ Included(p[1]) /\ Failed(p[2]) /\ Failed(p[3])
          /\ result[1].val = fetched[p[1]].code

\* the iteration of a candidate whose fetch returned
C3_Step ==
    (pcNear = "loop" /\ idx <= Len(distances)
        /\ Len(fetched') = Len(fetched) + 1 /\ fetched'[Len(fetched')].ok)
    => LET c == distances[idx]
           delta == fetched'[Len(fetched')].delta
           l == Label(c.station, c.distance, delta)
       IN  IF delta >= -max_seconds_ago
           THEN HasKey(result', l) /\ DictGet(result', l) = c.code
           ELSE result' = result

C3_Final ==
    pcNear = "done" =>
        \A i \in 1..Len(fetched) :
            /\ Included(i) => HasKey(result, FetchedLabel(i))
            /\ Stale(i) => \A e \in 1..Len(result) : result[e].val # fetched[i].code

\* C3: a candidate whose report was fetched is put into the result exactly
\* when report_time - now >= -max_seconds_ago: older reports are left out,
\* a report exactly max_seconds_ago old and a report from the future are in.
C3_FreshnessDecidesInclusion == [][C3_Step]_vars /\ []C3_Final

\* reports at the limit, from the future and one second too old
C3_Witness ==
    /\ pcNear = "done" /\ Len(fetched) = 3 /\ Len(result) = 2
    /\ \E i, j, k \in 1..3 :
          /\ fetched[i].ok /\ fetched[i].delta = -max_seconds_ago
          /\ fetched[j].ok /\ fetched[j].delta > max_seconds_ago
          /\ fetched[k].ok /\ fetched[k].delta = -max_seconds_ago - 1
          /\ \E e, f \in 1..2 : result[e].val = fetched[i].code
                                /\ result[f].val = fetched[j].code

\* the fetch log against the registry
C9_Calls ==
    /\ pcNear \in {"loop", "done"} =>
         /\ Len(fetched) = idx - 1
         /\ \A i \in 1..Len(fetched) : fetched[i].code = distances[i].code
    /\ \A i, j \in 1..Len(fetched) : i < j => Nearer(fetched[i].code, fetched[j].code)
    /\ \A i \in 1..Len(fetched) : fetched[i].code \in InRangeCodes
    /\ pcNear = "done" =>
         {fetched[i].code : i \in 1..Len(fetched)} = InRangeCodes

\* every step of the loop fetches for the candidate at idx and moves to the
\* next one, and the step after the last candidate returns: the loop ends
\* after Len(distances) fetches
C9_Progress ==
    pcNear = "loop" =>
        \/ /\ idx <= Len(distances) /\ pcNear' = "loop" /\ idx' = idx + 1
           /\ Len(fetched') = Len(fetched) + 1
           /\ fetched'[Len(fetched')].code = distances[idx].code
           /\ distances' = distances
        \/ /\ idx = Len(distances) + 1 /\ pcNear' = "done" /\ fetched' = fetched

\* C9: the fetch is called exactly once for each station within
\* max_distance and for no other, one call per step, in ascending order of
\* distance, whatever the earlier candidates did, and the query ends after
\* the last candidate.
C9_OneFetchPerCandidateInOrder == []C9_Calls /\ [][C9_Progress]_vars

\* a failed and a stale candidate before one that is included
C9_Witness ==
    /\ pcNear = "done" /\ Len(fetched) = 3
    /\ Failed(1) /\ Stale(2) /\ Included(3)
    /\ RegDist(fetched[1].code) < RegDist(fetched[3].code)
====
